---- MODULE Spec2Model ----
(***************************************************************************)
(* A model of node/cdn/src/blocks.rs: sync_ledger_with_cdn and load_blocks *)
(* (the download controller, the chunk fetch tasks, the pending-block      *)
(* buffer and the sequential applier), together with cdn_height.           *)
(*                                                                         *)
(* Blocks are identified by their height.  A Result<u32, (u32, Error)> is  *)
(* a record [status, height, error]; an Option<u32> is <<>> or <<v>>.      *)
(***************************************************************************)
EXTENDS Integers, Sequences, FiniteSets, TLC

(***************************************************************************)
(* Bounds of the model.  BLOCKS_PER_FILE and CONCURRENT_REQUESTS are the   *)
(* constants of blocks.rs lines 44 and 46 (50 and 16 there), scaled down   *)
(* so that a run of a few chunks already exercises backpressure, the stop  *)
(* test and bundle alignment.                                              *)
(***************************************************************************)
BLOCKS_PER_FILE == 2

CONCURRENT_REQUESTS == 2

\* The largest start_height given to load_blocks directly.
MaxStartHeight == 2

\* The largest Some(end_height) given to load_blocks directly.
MaxEndHeight == 5

\* The largest exclusive_height the remote latest.json reports.
MaxExclusiveHeight == 16

\* The largest ledger height sync_ledger_with_cdn starts from.
MaxLedgerHeight == 0

\* The number of failed attempts of one chunk fetch followed in the model.
MaxAttempts == 1

\* The largest height of a block given to the sorted insert on its own.
MaxBufferHeight == 4

\* The number of duplicate warnings followed in the model.
MaxWarnings == 2

\* The largest value of the unsigned integers of cdn_height and of
\* log_progress; it stands for u32::MAX.
MaxU32 == 1023

\* The largest index and range bound given to log_progress on its own.
MaxProgressIndex == 12

(***************************************************************************)
(* Program constants.                                                      *)
(***************************************************************************)
MAXIMUM_PENDING_BLOCKS == BLOCKS_PER_FILE * CONCURRENT_REQUESTS * 2

NETWORK_ID == 3

\* The number of blocks cdn_height steps back from the advertised tip.
TIP_MARGIN == 10

\* The program's own value of BLOCKS_PER_FILE, used where cdn_height is
\* followed on its own.
PROGRAM_BLOCKS_PER_FILE == 50

VARIABLES
    entry,            \* the entry point called: "load_blocks" or "sync_ledger_with_cdn"
    start_height,     \* load_blocks' start_height
    end_height_opt,   \* load_blocks' end_height: Option<u32>
    ledger_height,    \* the maximum height of the ledger's block store
    shutdown,         \* the shutdown flag (AtomicBool), set by the Ctrl-C handler
    main_pc,          \* position of the calling task
    end_height,       \* the clamped end_height (line 129), = cdn_end; 0 until computed
    cdn_start,        \* line 139
    pending_blocks,   \* Arc<Mutex<Vec<Block>>>: heights, kept sorted
    active_requests,  \* Arc<AtomicU32>
    ctrl_pc,          \* position of the download task
    ctrl_start,       \* the download task's `start`
    num_pending_blocks, \* the download task's local read of the buffer length
    tasks,            \* the spawned request tasks, in spawn order
    current_height,   \* the applier's current_height
    next_blocks,      \* the bundle the applier is iterating over
    applied,          \* heights handed to `process`, in call order
    lb_result,        \* what load_blocks returned
    integrity_checked, \* whether sync_ledger_with_cdn entered the integrity check
    get_block_res,    \* outcome of ledger.get_block in the integrity check
    sync_result,      \* what sync_ledger_with_cdn returned
    duplicate_warnings, \* the "Duplicate pending block" warnings logged (line 230)
    lock_holder,      \* who holds the Mutex of pending_blocks
    awaiting,         \* the tasks suspended at an .await on a timer or on I/O
    arg_blocks_per_file,  \* cdn_height's BLOCKS_PER_FILE, when cdn_height is called alone
    arg_exclusive_height, \* the exclusive_height of latest.json, when cdn_height is called alone
    cdn_height_ret,   \* how that call of cdn_height ended, and the u32 it returned
    progress          \* how the last call of log_progress ended, and what it computed

vars == <<entry, start_height, end_height_opt, ledger_height, shutdown, main_pc,
          end_height, cdn_start, pending_blocks, active_requests,
          ctrl_pc, ctrl_start, num_pending_blocks, tasks, current_height,
          next_blocks, applied, lb_result, integrity_checked, get_block_res,
          sync_result, duplicate_warnings, lock_holder, awaiting,
          arg_blocks_per_file, arg_exclusive_height, cdn_height_ret, progress>>

\* The variables of the pipeline that a step of the lock alone leaves as they are.
vars_of_pipeline == <<entry, start_height, end_height_opt, ledger_height, shutdown, main_pc,
                      end_height, cdn_start, pending_blocks, active_requests, ctrl_pc,
                      ctrl_start, num_pending_blocks, tasks, current_height, next_blocks,
                      applied, lb_result, integrity_checked, get_block_res, sync_result>>

\* The lock and the suspension of tasks, followed step by step only in LockSpec.
lockvars == <<lock_holder, awaiting>>

\* A call of cdn_height on its own, followed only in HeightSpec.
heightvars == <<arg_blocks_per_file, arg_exclusive_height, cdn_height_ret>>

(***************************************************************************)
(* Values.                                                                 *)
(***************************************************************************)
None == <<>>

Some(v) == <<v>>

unwrap_or(opt, default) == IF opt = None THEN default ELSE opt[1]

Min(a, b) == IF a <= b THEN a ELSE b

saturating_sub(a, b) == IF a >= b THEN a - b ELSE 0

NoResult == [status |-> "none", height |-> 0, error |-> "none"]

\* The holders of the lock, and the tasks that can be suspended.
Free == <<"free", 0>>

Controller == <<"controller", 0>>

Applier == <<"applier", 0>>

RequestTask(t) == <<"request", t>>

\* How a call of cdn_height on its own has ended.
NotCalled == [state |-> "not called", value |-> 0]

Returned(v) == [state |-> "Ok", value |-> v]

Failed == [state |-> "Err", value |-> 0]

Panicked == [state |-> "panic", value |-> 0]

\* How a call of log_progress has ended, and what it computed.
NotLogged == [state |-> "not called", percentage |-> 0, num_files_done |-> 0]

Logged(p, n) == [state |-> "logged", percentage |-> p, num_files_done |-> n]

ProgressPanic(why) == [state |-> why, percentage |-> 0, num_files_done |-> 0]

Ok(h) == [status |-> "Ok", height |-> h, error |-> "none"]

Err(h, e) == [status |-> "Err", height |-> h, error |-> e]

(***************************************************************************)
(* cdn_height: the tip stepped back by TIP_MARGIN (saturating) and moved   *)
(* to the next multiple of the bundle size.                                *)
(***************************************************************************)
cdn_height(blocks_per_file, exclusive_height) ==
    LET tip == saturating_sub(exclusive_height, TIP_MARGIN)
    IN  tip - (tip % blocks_per_file) + blocks_per_file

\* log_progress with the files done counted from the end of the range.
log_progress_FromEnd(current_index, range_start, range_end, objects_per_file) ==
    LET cdn_end == (range_end - 1) % (MaxU32 + 1)
        difference == current_index - cdn_end
    IN  IF difference < 0
        THEN {ProgressPanic("underflow")}
        ELSE {Logged(0, 1 + difference \div objects_per_file)}

(***************************************************************************)
(* log_progress, lines 403-429, in u32 arithmetic.  The outcomes are those *)
(* of a build with overflow checks (the first operation that leaves the    *)
(* u32 range panics) and of a build without them (the values wrap around,  *)
(* and only the division by zero panics).  The elapsed time only enters    *)
(* the estimate, whose divisor is num_files_done.                          *)
(***************************************************************************)
log_progress(current_index, range_start, range_end, objects_per_file) ==
    LET Wrap(x) == x % (MaxU32 + 1)
        \* Line 412.
        cdn_end == Wrap(range_end - 1)
        \* Line 414.
        product == current_index * 100
        \* Line 416.
        difference == current_index - range_start
        num_files_done == Wrap(1 + Wrap(difference) \div objects_per_file)
        wrapped == IF cdn_end = 0 \/ num_files_done = 0
                   THEN ProgressPanic("division by zero")
                   ELSE Logged(Wrap(product) \div cdn_end, num_files_done)
        checked == IF range_end - 1 < 0 THEN ProgressPanic("underflow")
                   ELSE IF product > MaxU32 THEN ProgressPanic("overflow")
                   ELSE IF cdn_end = 0 THEN ProgressPanic("division by zero")
                   ELSE IF difference < 0 THEN ProgressPanic("underflow")
                   ELSE wrapped
    IN  {checked, wrapped}

\* BundleBlocks with every height one too high.
BundleBlocks_Shifted(start, end) == [i \in 1..(end - start) |-> start + i]

\* The bundle served at {base_url}/{start}.{end}.blocks: the blocks of heights [start, end).
BundleBlocks(start, end) == [i \in 1..(end - start) |-> start + i - 1]

(***************************************************************************)
(* The sorted insert of one block into the pending blocks:                 *)
(* binary_search_by_key gives Ok(idx) for a height that is present (the    *)
(* block is dropped) and Err(idx), the insertion point, otherwise.         *)
(***************************************************************************)
InsertionPoint(blocks, height) == Cardinality({i \in 1..Len(blocks) : blocks[i] < height})

\* InsertBlock with a present height inserted again.
InsertBlock_Always(blocks, height) ==
    LET idx == InsertionPoint(blocks, height)
    IN  SubSeq(blocks, 1, idx) \o <<height>> \o SubSeq(blocks, idx + 1, Len(blocks))

InsertBlock(blocks, height) ==
    IF \E i \in 1..Len(blocks) : blocks[i] = height
    THEN blocks
    ELSE LET idx == InsertionPoint(blocks, height)
         IN  SubSeq(blocks, 1, idx) \o <<height>> \o SubSeq(blocks, idx + 1, Len(blocks))

\* Line 230: the blocks of a bundle that binary_search_by_key finds present.
NumDuplicates(blocks, bundle) ==
    Cardinality({i \in 1..Len(bundle) : \E j \in 1..Len(blocks) : blocks[j] = bundle[i]})

\* InsertAll with the lock given up after the first block of the bundle.
InsertAll_HeadOnly(blocks, bundle) ==
    IF bundle = <<>> THEN blocks ELSE InsertBlock(blocks, Head(bundle))

RECURSIVE InsertAll(_, _)
InsertAll(blocks, bundle) ==
    IF bundle = <<>> THEN blocks
    ELSE InsertAll(InsertBlock(blocks, Head(bundle)), Tail(bundle))

(***************************************************************************)
(* Init: the caller's arguments.  sync_ledger_with_cdn starts at the       *)
(* ledger's latest height + 1 with no end height.                          *)
(***************************************************************************)
Init ==
    /\ entry \in {"load_blocks", "sync_ledger_with_cdn"}
    /\ ledger_height \in 0..MaxLedgerHeight
    /\ IF entry = "sync_ledger_with_cdn"
       THEN /\ start_height = ledger_height + 1
            /\ end_height_opt = None
       ELSE /\ ledger_height = 0
            /\ start_height \in 0..MaxStartHeight
            /\ end_height_opt \in {None} \cup {Some(v) : v \in 0..MaxEndHeight}
    /\ shutdown = FALSE
    /\ main_pc = "call"
    /\ end_height = 0
    /\ cdn_start = 0
    /\ pending_blocks = <<>>
    /\ active_requests = 0
    /\ ctrl_pc = "unspawned"
    /\ ctrl_start = 0
    /\ num_pending_blocks = 0
    /\ tasks = <<>>
    /\ current_height = 0
    /\ next_blocks = <<>>
    /\ applied = <<>>
    /\ lb_result = NoResult
    /\ integrity_checked = FALSE
    /\ get_block_res = "unread"
    /\ sync_result = NoResult
    /\ duplicate_warnings = 0
    /\ lock_holder = Free
    /\ awaiting = {}
    /\ arg_blocks_per_file = BLOCKS_PER_FILE
    /\ arg_exclusive_height = 0
    /\ cdn_height_ret = NotCalled
    /\ progress = NotLogged

(***************************************************************************)
(* load_blocks, lines 109-170 and 264: the checks before the pipeline      *)
(* starts.  Inputs: the network's ID, the outcome of cdn_height and of     *)
(* Client::builder().build().                                              *)
(***************************************************************************)
Return(res) ==
    /\ lb_result' = res
    /\ main_pc' = "returned"

LoadBlocksPrelude ==
    /\ main_pc = "call"
    /\ \E network_id \in {NETWORK_ID, NETWORK_ID + 1},
          tip \in {None} \cup {Some(cdn_height(BLOCKS_PER_FILE, e)) : e \in 0..MaxExclusiveHeight},
          client_ok \in BOOLEAN :
         IF network_id # NETWORK_ID
         THEN /\ Return(Err(start_height, "unsupported_network"))
              /\ UNCHANGED <<end_height, cdn_start, ctrl_pc, ctrl_start, current_height>>
         ELSE IF tip = None
         THEN /\ Return(Err(start_height, "cdn_height"))
              /\ UNCHANGED <<end_height, cdn_start, ctrl_pc, ctrl_start, current_height>>
         ELSE IF tip[1] < start_height
         THEN /\ Return(Err(start_height, "start_above_cdn_height"))
              /\ UNCHANGED <<end_height, cdn_start, ctrl_pc, ctrl_start, current_height>>
         ELSE LET end == Min(unwrap_or(end_height_opt, tip[1]), tip[1])
                  cstart == start_height - (start_height % BLOCKS_PER_FILE)
              IN  /\ end_height' = end
                  /\ IF end < start_height
                     THEN /\ Return(Err(start_height, "end_below_start"))
                          /\ UNCHANGED <<cdn_start, ctrl_pc, ctrl_start, current_height>>
                     ELSE /\ cdn_start' = cstart
                          /\ IF cstart >= end
                             THEN /\ Return(Ok(end))
                                  /\ UNCHANGED <<ctrl_pc, ctrl_start, current_height>>
                             ELSE IF ~client_ok
                             THEN /\ Return(Err(saturating_sub(start_height, 1), "client"))
                                  /\ UNCHANGED <<ctrl_pc, ctrl_start, current_height>>
                             ELSE /\ ctrl_pc' = "loop"
                                  /\ ctrl_start' = cstart
                                  /\ current_height' = saturating_sub(start_height, 1)
                                  /\ main_pc' = "applier"
                                  /\ UNCHANGED lb_result
    /\ UNCHANGED <<entry, start_height, end_height_opt, ledger_height, shutdown,
                   pending_blocks, active_requests, num_pending_blocks, tasks,
                   next_blocks, applied, integrity_checked, get_block_res, sync_result>>

\* std::process::exit(0) ends every task of the process.
Running == main_pc # "exited"

(***************************************************************************)
(* The download task, lines 171-178: the loop test, the read of the        *)
(* buffer length under the lock, and the backpressure wait.                *)
(***************************************************************************)
ControllerLoop ==
    /\ Running
    /\ ctrl_pc = "loop"
    /\ IF ~(ctrl_start < end_height - 1)
       THEN /\ ctrl_pc' = "done"
            /\ UNCHANGED num_pending_blocks
       ELSE /\ num_pending_blocks' = Len(pending_blocks)
            /\ ctrl_pc' = IF Len(pending_blocks) >= MAXIMUM_PENDING_BLOCKS THEN "loop" ELSE "requests"
    /\ UNCHANGED <<entry, start_height, end_height_opt, ledger_height, shutdown, main_pc,
                   end_height, cdn_start, pending_blocks, active_requests,
                   ctrl_start, tasks, current_height, next_blocks, applied, lb_result,
                   integrity_checked, get_block_res, sync_result>>

\* Line 182: the test that ends the download task.
StopRequests(start, num_pending, active_request_count, cdn_end) ==
    start + num_pending + active_request_count * BLOCKS_PER_FILE >= cdn_end - 1

\* NumRequests with the active requests not subtracted.
NumRequests_IgnoreActive(num_pending, active_request_count) ==
    Min(CONCURRENT_REQUESTS, (MAXIMUM_PENDING_BLOCKS - num_pending) \div BLOCKS_PER_FILE)

\* Lines 189-191.
NumRequests(num_pending, active_request_count) ==
    saturating_sub(Min(CONCURRENT_REQUESTS,
                       (MAXIMUM_PENDING_BLOCKS - num_pending) \div BLOCKS_PER_FILE),
                   active_request_count)

\* Lines 194-202: the starts of the bundles requested in one round; the loop
\* breaks at the first bundle whose end is above cdn_end + BLOCKS_PER_FILE.
RequestedStarts(start, num_requests, cdn_end) ==
    LET n == Cardinality({i \in 0..(num_requests - 1) :
                            \A j \in 0..i : start + j * BLOCKS_PER_FILE + BLOCKS_PER_FILE
                                              <= cdn_end + BLOCKS_PER_FILE})
    IN  [i \in 1..n |-> start + (i - 1) * BLOCKS_PER_FILE]

NewTask(start) == [start |-> start, end |-> start + BLOCKS_PER_FILE, pc |-> "spawned", attempts |-> 0]

(***************************************************************************)
(* The download task, lines 181-259: the read of the request counter, the  *)
(* stop test, the spawning of the request tasks and the advance of start.  *)
(***************************************************************************)
ControllerRequests ==
    /\ Running
    /\ ctrl_pc = "requests"
    /\ LET active_request_count == active_requests
       IN  IF StopRequests(ctrl_start, num_pending_blocks, active_request_count, end_height)
           THEN /\ ctrl_pc' = "stopped"
                /\ UNCHANGED <<ctrl_start, tasks>>
           ELSE LET num_requests == NumRequests(num_pending_blocks, active_request_count)
                    starts == RequestedStarts(ctrl_start, num_requests, end_height)
                IN  /\ tasks' = tasks \o [i \in 1..Len(starts) |-> NewTask(starts[i])]
                    /\ ctrl_start' = ctrl_start + BLOCKS_PER_FILE * num_requests
                    /\ ctrl_pc' = "loop"
    \* num_pending_blocks is a local of one loop iteration: it is dead from here on.
    /\ num_pending_blocks' = 0
    /\ UNCHANGED <<entry, start_height, end_height_opt, ledger_height, shutdown, main_pc,
                   end_height, cdn_start, pending_blocks, active_requests,
                   current_height, next_blocks, applied, lb_result,
                   integrity_checked, get_block_res, sync_result>>

(***************************************************************************)
(* A request task, lines 208-252.                                          *)
(***************************************************************************)
\* Line 210: the task starts and increments the request counter.
TaskBegin(t) ==
    /\ Running
    /\ t \in DOMAIN tasks
    /\ tasks[t].pc = "spawned"
    /\ active_requests' = active_requests + 1
    /\ tasks' = [tasks EXCEPT ![t].pc = "fetching"]
    /\ UNCHANGED <<entry, start_height, end_height_opt, ledger_height, shutdown, main_pc,
                   end_height, cdn_start, pending_blocks, ctrl_pc, ctrl_start,
                   num_pending_blocks, current_height, next_blocks, applied, lb_result,
                   integrity_checked, get_block_res, sync_result>>

\* TaskFetchFail with the task giving up after the failure.
TaskFetchFail_GiveUp(t) ==
    /\ Running
    /\ t \in DOMAIN tasks
    /\ tasks[t].pc = "fetching"
    /\ tasks[t].attempts < MaxAttempts
    /\ tasks' = [tasks EXCEPT ![t].attempts = @ + 1, ![t].pc = "finished"]
    /\ active_requests' = active_requests - 1
    /\ UNCHANGED <<entry, start_height, end_height_opt, ledger_height, shutdown, main_pc,
                   end_height, cdn_start, pending_blocks, ctrl_pc,
                   ctrl_start, num_pending_blocks, current_height, next_blocks, applied,
                   lb_result, integrity_checked, get_block_res, sync_result>>

\* Lines 224, 241-246: cdn_get fails; the attempt is counted and the fetch repeated.
TaskFetchFail(t) ==
    /\ Running
    /\ t \in DOMAIN tasks
    /\ tasks[t].pc = "fetching"
    /\ tasks[t].attempts < MaxAttempts
    /\ tasks' = [tasks EXCEPT ![t].attempts = @ + 1]
    /\ UNCHANGED <<entry, start_height, end_height_opt, ledger_height, shutdown, main_pc,
                   end_height, cdn_start, pending_blocks, active_requests, ctrl_pc,
                   ctrl_start, num_pending_blocks, current_height, next_blocks, applied,
                   lb_result, integrity_checked, get_block_res, sync_result>>

\* Lines 224-240: cdn_get succeeds; the bundle is inserted under one lock.
TaskFetchOk(t) ==
    /\ Running
    /\ t \in DOMAIN tasks
    /\ tasks[t].pc = "fetching"
    /\ pending_blocks' = InsertAll(pending_blocks, BundleBlocks(tasks[t].start, tasks[t].end))
    /\ duplicate_warnings' = duplicate_warnings
                              + NumDuplicates(pending_blocks, BundleBlocks(tasks[t].start, tasks[t].end))
    /\ tasks' = [tasks EXCEPT ![t].pc = "received"]
    /\ UNCHANGED <<entry, start_height, end_height_opt, ledger_height, shutdown, main_pc,
                   end_height, cdn_start, active_requests, ctrl_pc, ctrl_start,
                   num_pending_blocks, current_height, next_blocks, applied, lb_result,
                   integrity_checked, get_block_res, sync_result>>

\* Line 251: the task decrements the request counter and ends.
TaskEnd(t) ==
    /\ Running
    /\ t \in DOMAIN tasks
    /\ tasks[t].pc = "received"
    /\ active_requests' = active_requests - 1
    /\ tasks' = [tasks EXCEPT ![t].pc = "finished"]
    /\ UNCHANGED <<entry, start_height, end_height_opt, ledger_height, shutdown, main_pc,
                   end_height, cdn_start, pending_blocks, ctrl_pc, ctrl_start,
                   num_pending_blocks, current_height, next_blocks, applied, lb_result,
                   integrity_checked, get_block_res, sync_result>>

(***************************************************************************)
(* The applier, lines 265-293 and 334.                                     *)
(***************************************************************************)
\* GapWait with the wait for the next height left out.
GapWait_Never(next_height, current) == FALSE

\* Line 277: the nearest pending block is not the next one to insert.
GapWait(next_height, current) == next_height > current + 1

ApplierLoop ==
    /\ main_pc = "applier"
    /\ IF ~(current_height < end_height - 1)
       THEN /\ Return(Ok(current_height))
            /\ UNCHANGED <<pending_blocks, next_blocks>>
       ELSE IF pending_blocks = <<>>
       THEN UNCHANGED <<pending_blocks, next_blocks, lb_result, main_pc>>
       ELSE IF GapWait(pending_blocks[1], current_height)
       THEN UNCHANGED <<pending_blocks, next_blocks, lb_result, main_pc>>
       ELSE LET n == Min(BLOCKS_PER_FILE, Len(pending_blocks))
            IN  /\ next_blocks' = SubSeq(pending_blocks, 1, n)
                /\ pending_blocks' = SubSeq(pending_blocks, n + 1, Len(pending_blocks))
                /\ main_pc' = "apply"
                /\ UNCHANGED lb_result
    /\ UNCHANGED <<entry, start_height, end_height_opt, ledger_height, shutdown,
                   end_height, cdn_start, active_requests, ctrl_pc, ctrl_start,
                   num_pending_blocks, tasks, current_height, applied,
                   integrity_checked, get_block_res, sync_result>>

\* Line 307: a block of the bundle that is outside the requested range.
SkipBlock(height, current) == height < start_height \/ current >= end_height - 1

\* The for loop moves to its next block, or the while loop is re-entered.
NextBlock ==
    /\ next_blocks' = Tail(next_blocks)
    /\ main_pc' = IF Tail(next_blocks) = <<>> THEN "applier" ELSE "apply"

(***************************************************************************)
(* One iteration of the for loop, lines 296-331: the shutdown test, the    *)
(* skip test and the call of `process` on a blocking thread.  The outcome  *)
(* of the call is an input: "apply_error" stands for both failure arms of  *)
(* lines 319-324 (an error of `process`, a failed join of the blocking     *)
(* thread), which return alike.  Under sync_ledger_with_cdn `process` is   *)
(* ledger.advance_to_next_block, which on success stores the block, and    *)
(* which on failure may or may not have stored it.                         *)
(***************************************************************************)
\* ShutdownRequested with the flag never seen set.
ShutdownRequested_Never(flag) == FALSE

\* Line 298: shutdown.load(Ordering::Relaxed).
ShutdownRequested(flag) == flag

ApplierBlock ==
    /\ main_pc = "apply"
    /\ LET block == Head(next_blocks)
       IN  IF ShutdownRequested(shutdown)
           THEN /\ main_pc' = "exited"
                /\ UNCHANGED <<next_blocks, applied, current_height, lb_result, ledger_height,
                               progress>>
           ELSE IF SkipBlock(block, current_height)
           THEN /\ NextBlock
                /\ UNCHANGED <<applied, current_height, lb_result, ledger_height, progress>>
           ELSE /\ applied' = Append(applied, block)
                /\ \E outcome \in {"ok", "apply_error"} :
                     IF outcome = "ok"
                     THEN /\ current_height' = current_height + 1
                          /\ ledger_height' = IF entry = "sync_ledger_with_cdn"
                                              THEN block ELSE ledger_height
                          \* Line 330; a panic of log_progress ends load_blocks.
                          /\ progress' \in log_progress(current_height + 1, cdn_start,
                                                        end_height, BLOCKS_PER_FILE)
                          /\ IF progress'.state = "logged"
                             THEN NextBlock
                             ELSE main_pc' = "panicked" /\ UNCHANGED next_blocks
                          /\ UNCHANGED lb_result
                     ELSE /\ Return(Err(current_height, outcome))
                          /\ \E stored \in BOOLEAN :
                               ledger_height' = IF entry = "sync_ledger_with_cdn" /\ stored
                                                THEN block ELSE ledger_height
                          /\ UNCHANGED <<current_height, next_blocks, progress>>
    /\ UNCHANGED <<entry, start_height, end_height_opt, shutdown, end_height,
                   cdn_start, pending_blocks, active_requests, ctrl_pc, ctrl_start,
                   num_pending_blocks, tasks, integrity_checked, get_block_res, sync_result>>

\* The Ctrl-C handler sets the shutdown flag; the pipeline only reads it, and
\* nothing reads it once load_blocks has returned.
SetShutdown ==
    /\ main_pc \in {"call", "applier", "apply"}
    /\ ~shutdown
    /\ shutdown' = TRUE
    /\ UNCHANGED <<entry, start_height, end_height_opt, ledger_height, main_pc,
                   end_height, cdn_start, pending_blocks, active_requests,
                   ctrl_pc, ctrl_start, num_pending_blocks, tasks, current_height,
                   next_blocks, applied, lb_result, integrity_checked, get_block_res,
                   sync_result>>

(***************************************************************************)
(* sync_ledger_with_cdn, lines 72-95: what it makes of load_blocks'        *)
(* result.  Input: the outcome of ledger.get_block.                        *)
(***************************************************************************)
\* Line 76: "if the sync made any progress".
MadeProgress(completed_height, start) == completed_height # start

\* HeightMismatch with the comparison left out.
HeightMismatch_Never(node_height, completed_height) == FALSE

\* Line 82: the ledger's height against the last sync height.
HeightMismatch(node_height, completed_height) == node_height # completed_height

SyncFinish ==
    /\ entry = "sync_ledger_with_cdn"
    /\ main_pc = "returned"
    /\ main_pc' = "sync_returned"
    /\ IF lb_result.status = "Err"
       THEN LET completed_height == lb_result.height
            IN  IF MadeProgress(completed_height, start_height)
                THEN /\ integrity_checked' = TRUE
                     /\ IF HeightMismatch(ledger_height, completed_height)
                        THEN /\ sync_result' = Err(completed_height, "height_mismatch")
                             /\ UNCHANGED get_block_res
                        ELSE \E get_block_ok \in BOOLEAN :
                               IF get_block_ok
                               THEN /\ get_block_res' = "ok"
                                    /\ sync_result' = Ok(completed_height)
                               ELSE /\ get_block_res' = "error"
                                    /\ sync_result' = Err(completed_height, "get_block")
                ELSE /\ sync_result' = Ok(completed_height)
                     /\ UNCHANGED <<integrity_checked, get_block_res>>
       ELSE /\ sync_result' = lb_result
            /\ UNCHANGED <<integrity_checked, get_block_res>>
    /\ UNCHANGED <<entry, start_height, end_height_opt, ledger_height, shutdown,
                   end_height, cdn_start, pending_blocks, active_requests,
                   ctrl_pc, ctrl_start, num_pending_blocks, tasks, current_height,
                   next_blocks, applied, lb_result>>

(***************************************************************************)
(* In Spec every critical section is one step, so the lock is free between *)
(* steps; no bundle is a duplicate unless TaskFetchOk finds one.           *)
(***************************************************************************)
Next ==
    \/ LoadBlocksPrelude /\ UNCHANGED <<duplicate_warnings, lockvars, heightvars, progress>>
    \/ ControllerLoop /\ UNCHANGED <<duplicate_warnings, lockvars, heightvars, progress>>
    \/ ControllerRequests /\ UNCHANGED <<duplicate_warnings, lockvars, heightvars, progress>>
    \/ \E t \in 1..Len(tasks) : TaskBegin(t) /\ UNCHANGED <<duplicate_warnings, lockvars, heightvars, progress>>
    \/ \E t \in 1..Len(tasks) : TaskFetchFail(t) /\ UNCHANGED <<duplicate_warnings, lockvars, heightvars, progress>>
    \/ \E t \in 1..Len(tasks) : TaskFetchOk(t) /\ UNCHANGED <<lockvars, heightvars, progress>>
    \/ \E t \in 1..Len(tasks) : TaskEnd(t) /\ UNCHANGED <<duplicate_warnings, lockvars, heightvars, progress>>
    \/ ApplierLoop /\ UNCHANGED <<duplicate_warnings, lockvars, heightvars, progress>>
    \/ ApplierBlock /\ UNCHANGED <<duplicate_warnings, lockvars, heightvars>>
    \/ SetShutdown /\ UNCHANGED <<duplicate_warnings, lockvars, heightvars, progress>>
    \/ SyncFinish /\ UNCHANGED <<duplicate_warnings, lockvars, heightvars, progress>>

Spec == Init /\ [][Next]_vars

(***************************************************************************)
(* A second specification for progress: load_blocks called directly with   *)
(* an end height, no shutdown signal, and weak fairness of every task of   *)
(* the runtime.  tokio schedules every ready task, and a request task's    *)
(* fetch is taken to succeed eventually (TaskFetchOk stays enabled through *)
(* failures, so weak fairness of it is "succeeds after finitely many       *)
(* failures").                                                             *)
(***************************************************************************)
\* No more request tasks than bundles starting in 0..cdn_end are ever spawned.
MaxTasks == (cdn_height(BLOCKS_PER_FILE, MaxExclusiveHeight) \div BLOCKS_PER_FILE) + 1

LiveInit ==
    /\ Init
    /\ entry = "load_blocks"
    /\ end_height_opt # None

LiveNext ==
    \/ LoadBlocksPrelude /\ UNCHANGED <<duplicate_warnings, lockvars, heightvars, progress>>
    \/ ControllerLoop /\ UNCHANGED <<duplicate_warnings, lockvars, heightvars, progress>>
    \/ ControllerRequests /\ UNCHANGED <<duplicate_warnings, lockvars, heightvars, progress>>
    \/ \E t \in 1..Len(tasks) : TaskBegin(t) /\ UNCHANGED <<duplicate_warnings, lockvars, heightvars, progress>>
    \/ \E t \in 1..Len(tasks) : TaskFetchFail(t) /\ UNCHANGED <<duplicate_warnings, lockvars, heightvars, progress>>
    \/ \E t \in 1..Len(tasks) : TaskFetchOk(t) /\ UNCHANGED <<lockvars, heightvars, progress>>
    \/ \E t \in 1..Len(tasks) : TaskEnd(t) /\ UNCHANGED <<duplicate_warnings, lockvars, heightvars, progress>>
    \/ ApplierLoop /\ UNCHANGED <<duplicate_warnings, lockvars, heightvars, progress>>
    \/ ApplierBlock /\ UNCHANGED <<duplicate_warnings, lockvars, heightvars>>

Fairness ==
    /\ WF_vars(LoadBlocksPrelude /\ UNCHANGED <<duplicate_warnings, lockvars, heightvars, progress>>)
    /\ WF_vars(ControllerLoop /\ UNCHANGED <<duplicate_warnings, lockvars, heightvars, progress>>)
    /\ WF_vars(ControllerRequests /\ UNCHANGED <<duplicate_warnings, lockvars, heightvars, progress>>)
    /\ WF_vars(ApplierLoop /\ UNCHANGED <<duplicate_warnings, lockvars, heightvars, progress>>)
    /\ WF_vars(ApplierBlock /\ UNCHANGED <<duplicate_warnings, lockvars, heightvars>>)
    /\ \A t \in 1..MaxTasks :
         /\ WF_vars(TaskBegin(t) /\ UNCHANGED <<duplicate_warnings, lockvars, heightvars, progress>>)
         /\ WF_vars(TaskFetchOk(t) /\ UNCHANGED <<lockvars, heightvars, progress>>)
         /\ WF_vars(TaskEnd(t) /\ UNCHANGED <<duplicate_warnings, lockvars, heightvars, progress>>)

LiveSpec == LiveInit /\ [][LiveNext]_vars /\ Fairness

(***************************************************************************)
(* BufferSpec: the pending blocks on their own.  The buffer starts as any  *)
(* sorted vector without duplicates; a step inserts one block of any       *)
(* height as lines 229-232 do, or takes the first blocks as lines 291-292  *)
(* do.  Everything else stays as it is.                                    *)
(***************************************************************************)
\* The variables an operation followed on its own leaves alone.
detachedvars == <<entry, start_height, end_height_opt, ledger_height, shutdown, main_pc,
                  end_height, cdn_start, active_requests, ctrl_pc, ctrl_start,
                  num_pending_blocks, tasks, current_height, applied, lb_result,
                  integrity_checked, get_block_res, sync_result, lockvars>>

Detached ==
    /\ entry = "load_blocks"
    /\ ledger_height = 0
    /\ start_height = 0
    /\ end_height_opt = None
    /\ shutdown = FALSE
    /\ main_pc = "call"
    /\ end_height = 0
    /\ cdn_start = 0
    /\ active_requests = 0
    /\ ctrl_pc = "unspawned"
    /\ ctrl_start = 0
    /\ num_pending_blocks = 0
    /\ tasks = <<>>
    /\ current_height = 0
    /\ applied = <<>>
    /\ lb_result = NoResult
    /\ integrity_checked = FALSE
    /\ get_block_res = "unread"
    /\ sync_result = NoResult
    /\ lock_holder = Free
    /\ awaiting = {}

StrictlyAscending(blocks) == \A i \in 1..(Len(blocks) - 1) : blocks[i] < blocks[i + 1]

SortedBuffers ==
    {blocks \in UNION {[1..n -> 0..MaxBufferHeight] : n \in 0..(MaxBufferHeight + 1)} :
        StrictlyAscending(blocks)}

BufferInit ==
    /\ Detached
    /\ pending_blocks \in SortedBuffers
    /\ next_blocks = <<>>
    /\ duplicate_warnings = 0
    /\ arg_blocks_per_file = BLOCKS_PER_FILE
    /\ arg_exclusive_height = 0
    /\ cdn_height_ret = NotCalled
    /\ progress = NotLogged

\* Lines 229-232: one iteration of the insert loop.
BufferInsert(height) ==
    /\ duplicate_warnings + NumDuplicates(pending_blocks, <<height>>) <= MaxWarnings
    /\ pending_blocks' = InsertBlock(pending_blocks, height)
    /\ duplicate_warnings' = duplicate_warnings + NumDuplicates(pending_blocks, <<height>>)
    /\ UNCHANGED <<next_blocks, detachedvars, heightvars, progress>>

\* Lines 291-292: split_off(BLOCKS_PER_FILE), which needs that many blocks.
BufferTake ==
    /\ Len(pending_blocks) >= BLOCKS_PER_FILE
    /\ next_blocks' = SubSeq(pending_blocks, 1, BLOCKS_PER_FILE)
    /\ pending_blocks' = SubSeq(pending_blocks, BLOCKS_PER_FILE + 1, Len(pending_blocks))
    /\ UNCHANGED <<duplicate_warnings, detachedvars, heightvars, progress>>

BufferNext ==
    \/ \E height \in 0..MaxBufferHeight : BufferInsert(height)
    \/ BufferTake

BufferSpec == BufferInit /\ [][BufferNext]_vars

(***************************************************************************)
(* LockSpec: the pipeline with the lock of the pending blocks taken and    *)
(* released in steps of their own.  lock_holder is the task whose guard is *)
(* alive; awaiting holds the tasks suspended at an .await (a sleep, a      *)
(* cdn_get).  A task leaves awaiting with its next step.  The lock is a    *)
(* parking_lot Mutex: lock() goes through only when the lock is free.      *)
(***************************************************************************)
LockInit ==
    /\ Init
    /\ entry = "load_blocks"
    /\ start_height = 0
    /\ end_height_opt = None

\* Release with the guard kept alive.
Release_Keep(holder) == holder

\* The guard is dropped: the end of the statement of line 173, the end of
\* the match arm of line 240, drop(candidate_blocks) of lines 271, 285, 293.
Release(holder) == Free

Suspend(task) == awaiting' = awaiting \cup {task}

Resume(task) == awaiting' = awaiting \ {task}

\* Lines 110-166: no lock is taken; the download task is spawned.
L_Prelude ==
    /\ LoadBlocksPrelude
    /\ UNCHANGED <<duplicate_warnings, lockvars, heightvars, progress>>

\* Line 171: the loop test fails and the download task ends.
L_ControllerExit ==
    /\ ~(ctrl_start < end_height - 1)
    /\ ControllerLoop
    /\ Resume(Controller)
    /\ UNCHANGED <<duplicate_warnings, lock_holder, heightvars, progress>>

\* Line 173: pending_blocks_clone.lock().
L_ControllerLock ==
    /\ Running
    /\ ctrl_pc = "loop"
    /\ ctrl_start < end_height - 1
    /\ lock_holder = Free
    /\ lock_holder' = Controller
    /\ Resume(Controller)
    /\ UNCHANGED <<duplicate_warnings, heightvars, progress>>
    /\ UNCHANGED vars_of_pipeline

\* Lines 173-178: len() is read and the guard dropped with the statement;
\* with the buffer full the task sleeps 5 s.
L_ControllerLen ==
    /\ lock_holder = Controller
    /\ ControllerLoop
    /\ lock_holder' = Release(lock_holder)
    /\ IF ctrl_pc' = "loop" THEN Suspend(Controller) ELSE UNCHANGED awaiting
    /\ UNCHANGED <<duplicate_warnings, heightvars, progress>>

\* Lines 181-259: no lock is taken; the round ends in the sleep of line 259
\* or in the break of line 184.
L_ControllerRequests ==
    /\ ControllerRequests
    /\ IF ctrl_pc' = "loop" THEN Suspend(Controller) ELSE UNCHANGED awaiting
    /\ UNCHANGED <<duplicate_warnings, lock_holder, heightvars, progress>>

\* Lines 210-224: the task runs up to cdn_get(..).await.
L_TaskBegin(t) ==
    /\ TaskBegin(t)
    /\ Suspend(RequestTask(t))
    /\ UNCHANGED <<duplicate_warnings, lock_holder, heightvars, progress>>

\* Lines 241-246 and 224: the sleep of the backoff, then cdn_get(..).await.
L_TaskFetchFail(t) ==
    /\ lock_holder # RequestTask(t)
    /\ TaskFetchFail(t)
    /\ Suspend(RequestTask(t))
    /\ UNCHANGED <<duplicate_warnings, lock_holder, heightvars, progress>>

\* Line 227: cdn_get has given the blocks; pending_blocks_clone.lock().
L_TaskLock(t) ==
    /\ Running
    /\ t \in DOMAIN tasks
    /\ tasks[t].pc = "fetching"
    /\ lock_holder = Free
    /\ lock_holder' = RequestTask(t)
    /\ Resume(RequestTask(t))
    /\ UNCHANGED <<duplicate_warnings, heightvars, progress>>
    /\ UNCHANGED vars_of_pipeline

\* Lines 228-240: the blocks are inserted and the guard dropped.
L_TaskInsert(t) ==
    /\ lock_holder = RequestTask(t)
    /\ TaskFetchOk(t)
    /\ lock_holder' = Release(lock_holder)
    /\ UNCHANGED <<awaiting, heightvars, progress>>

\* Line 251.
L_TaskEnd(t) ==
    /\ TaskEnd(t)
    /\ UNCHANGED <<duplicate_warnings, lockvars, heightvars, progress>>

\* Lines 265, 334: the loop test fails and load_blocks returns.
L_ApplierReturn ==
    /\ ~(current_height < end_height - 1)
    /\ ApplierLoop
    /\ Resume(Applier)
    /\ UNCHANGED <<duplicate_warnings, lock_holder, heightvars, progress>>

\* Line 266: pending_blocks.lock().
L_ApplierLock ==
    /\ main_pc = "applier"
    /\ current_height < end_height - 1
    /\ lock_holder = Free
    /\ lock_holder' = Applier
    /\ Resume(Applier)
    /\ UNCHANGED <<duplicate_warnings, heightvars, progress>>
    /\ UNCHANGED vars_of_pipeline

\* Lines 269-293: the guard is dropped on each of the three paths; the
\* first two then sleep.
L_ApplierTake ==
    /\ lock_holder = Applier
    /\ ApplierLoop
    /\ lock_holder' = Release(lock_holder)
    /\ IF main_pc' = "applier" THEN Suspend(Applier) ELSE UNCHANGED awaiting
    /\ UNCHANGED <<duplicate_warnings, heightvars, progress>>

\* Lines 296-331: one block; spawn_blocking(..).await runs within the step.
L_ApplierBlock ==
    /\ ApplierBlock
    /\ UNCHANGED <<duplicate_warnings, lockvars, heightvars>>

LockNext ==
    \/ L_Prelude
    \/ L_ControllerExit
    \/ L_ControllerLock
    \/ L_ControllerLen
    \/ L_ControllerRequests
    \/ \E t \in 1..Len(tasks) : L_TaskBegin(t)
    \/ \E t \in 1..Len(tasks) : L_TaskFetchFail(t)
    \/ \E t \in 1..Len(tasks) : L_TaskLock(t)
    \/ \E t \in 1..Len(tasks) : L_TaskInsert(t)
    \/ \E t \in 1..Len(tasks) : L_TaskEnd(t)
    \/ L_ApplierReturn
    \/ L_ApplierLock
    \/ L_ApplierTake
    \/ L_ApplierBlock

LockSpec == LockInit /\ [][LockNext]_vars

(***************************************************************************)
(* HeightSpec: cdn_height on its own, lines 341-380.  Inputs: the const    *)
(* parameter BLOCKS_PER_FILE, and the exclusive_height of latest.json, any *)
(* u32.  The arithmetic of line 379 is u32 arithmetic: where the sum is    *)
(* above the largest u32 the call panics (overflow checks on) or returns   *)
(* the sum wrapped around (overflow checks off).                           *)
(***************************************************************************)
HeightInit ==
    /\ Detached
    /\ pending_blocks = <<>>
    /\ next_blocks = <<>>
    /\ duplicate_warnings = 0
    /\ arg_blocks_per_file \in {BLOCKS_PER_FILE, PROGRAM_BLOCKS_PER_FILE}
    /\ arg_exclusive_height \in 0..MaxU32
    /\ cdn_height_ret = NotCalled
    /\ progress = NotLogged

\* Lines 377-379 in u32: the outcomes the build can give.
CdnHeightOutcomes(blocks_per_file, exclusive_height) ==
    LET sum == cdn_height(blocks_per_file, exclusive_height)
    IN  IF sum <= MaxU32
        THEN {Returned(sum)}
        ELSE {Panicked, Returned(sum % (MaxU32 + 1))}

\* Lines 350-379: latest.json is fetched and parsed, and the height computed.
CdnHeightCall ==
    /\ cdn_height_ret = NotCalled
    /\ cdn_height_ret' \in CdnHeightOutcomes(arg_blocks_per_file, arg_exclusive_height)
    /\ UNCHANGED <<arg_blocks_per_file, arg_exclusive_height>>
    /\ UNCHANGED <<pending_blocks, next_blocks, duplicate_warnings, detachedvars, progress>>

\* Lines 350-375: the client, the request or one of the parses fails.
CdnHeightError ==
    /\ cdn_height_ret = NotCalled
    /\ cdn_height_ret' = Failed
    /\ UNCHANGED <<arg_blocks_per_file, arg_exclusive_height>>
    /\ UNCHANGED <<pending_blocks, next_blocks, duplicate_warnings, detachedvars, progress>>

HeightNext ==
    \/ CdnHeightCall
    \/ CdnHeightError

HeightSpec == HeightInit /\ [][HeightNext]_vars

(***************************************************************************)
(* ProgressSpec: log_progress on its own, lines 403-429, called once with  *)
(* any index and any range: current_height is the index, cdn_start and     *)
(* end_height are the bounds of cdn_range, as in the call of line 330.     *)
(***************************************************************************)
ProgressInit ==
    /\ entry = "load_blocks"
    /\ ledger_height = 0
    /\ start_height = 0
    /\ end_height_opt = None
    /\ shutdown = FALSE
    /\ main_pc = "apply"
    /\ end_height \in 0..MaxProgressIndex
    /\ cdn_start \in 0..MaxProgressIndex
    /\ current_height \in 0..MaxProgressIndex
    /\ pending_blocks = <<>>
    /\ active_requests = 0
    /\ ctrl_pc = "unspawned"
    /\ ctrl_start = 0
    /\ num_pending_blocks = 0
    /\ tasks = <<>>
    /\ next_blocks = <<>>
    /\ applied = <<>>
    /\ lb_result = NoResult
    /\ integrity_checked = FALSE
    /\ get_block_res = "unread"
    /\ sync_result = NoResult
    /\ duplicate_warnings = 0
    /\ lock_holder = Free
    /\ awaiting = {}
    /\ arg_blocks_per_file = BLOCKS_PER_FILE
    /\ arg_exclusive_height = 0
    /\ cdn_height_ret = NotCalled
    /\ progress = NotLogged

\* Line 330, the call alone.
ProgressCall ==
    /\ progress = NotLogged
    /\ progress' \in log_progress(current_height, cdn_start, end_height, BLOCKS_PER_FILE)
    /\ UNCHANGED <<vars_of_pipeline, duplicate_warnings, lockvars, heightvars>>

ProgressNext == ProgressCall

ProgressSpec == ProgressInit /\ [][ProgressNext]_vars

(***************************************************************************)
(* The claims.                                                             *)
(***************************************************************************)
\* The number of calls of `process` that succeeded.
NumAppliedOk == IF lb_result.error = "apply_error" THEN Len(applied) - 1 ELSE Len(applied)

\* Line 129 has been executed: end_height holds the clamped end.
EndComputed ==
    /\ main_pc # "call"
    /\ lb_result.error \notin {"unsupported_network", "cdn_height", "start_above_cdn_height"}

\* C1: under every interleaving, the k-th block handed to `process` has height
\* start_height + k - 1 (ascending by 1 from start_height, no height twice, none
\* skipped), and no block below start_height or at or above end_height is applied.
C1_AppliedInOrder ==
    \A k \in 1..Len(applied) :
        /\ applied[k] = start_height + k - 1
        /\ applied[k] >= start_height
        /\ applied[k] < end_height

\* C1's case: a run from an unaligned start that applied blocks of more than one
\* bundle, one of them fetched only at the second attempt, and returned Ok.
C1_Witness ==
    /\ lb_result.status = "Ok"
    /\ start_height % BLOCKS_PER_FILE # 0
    /\ Len(applied) > BLOCKS_PER_FILE
    /\ \E t \in 1..Len(tasks) : tasks[t].attempts > 0 /\ tasks[t].pc = "finished"

\* C2: whenever load_blocks returns Ok(h) for end_height > start_height, the blocks
\* applied are exactly start_height..end_height-1, h = end_height - 1, and h is the
\* height of the last block applied.
C2_OkAppliesExactRange ==
    (lb_result.status = "Ok" /\ end_height > start_height) =>
        /\ applied = [k \in 1..(end_height - start_height) |-> start_height + k - 1]
        /\ lb_result.height = end_height - 1
        /\ lb_result.height = applied[Len(applied)]

\* C3: with fair scheduling, no shutdown and every fetch succeeding in the end,
\* load_blocks eventually returns: Ok, or Err when an input of the run (the
\* network, the remote metadata, the range, the client, `process`) failed it.
C3_ForwardProgress == <>(lb_result.status = "Ok" \/ lb_result.status = "Err")

\* C4: when `process` fails on the block of height h, load_blocks returns
\* Err((h - 1, error)), and h - 1 is the last height whose apply succeeded.
C4_ApplyErrorHeight ==
    lb_result.error = "apply_error" =>
        /\ lb_result.height = applied[Len(applied)] - 1
        /\ Len(applied) > 1 => lb_result.height = applied[Len(applied) - 1]

\* C5: every Err((h, e)) of load_blocks carries the last successfully applied
\* height, which is start_height - 1 when no block was applied.
C5_ErrorCarriesLastApplied ==
    lb_result.status = "Err" =>
        lb_result.height = IF NumAppliedOk = 0 THEN start_height - 1 ELSE applied[NumAppliedOk]

\* C6: when the clamped end is at or below start_height, or the CDN height is below
\* start_height, load_blocks (its client built) returns Ok, applies nothing, and
\* the height returned is the clamped end.
C6_EmptyRangeSucceeds ==
    (/\ lb_result.status # "none"
     /\ lb_result.error # "client"
     /\ \/ lb_result.error = "start_above_cdn_height"
        \/ EndComputed /\ end_height <= start_height) =>
        /\ lb_result.status = "Ok"
        /\ applied = <<>>
        /\ lb_result.height = end_height

\* C7: sync_ledger_with_cdn returns Ok only when load_blocks returned Ok.
C7_SyncOkOnlyIfLoadOk == sync_result.status = "Ok" => lb_result.status = "Ok"

\* C8: after a failed load_blocks, sync_ledger_with_cdn runs the integrity check
\* if and only if the run applied at least one block.
C8_CheckIffProgress ==
    (main_pc = "sync_returned" /\ lb_result.status = "Err") =>
        (integrity_checked <=> NumAppliedOk >= 1)

\* C9: when the integrity check runs and the ledger's height differs from the
\* completed height, sync_ledger_with_cdn returns Err((completed_height, height
\* mismatch)); when they agree and get_block fails, Err((completed_height, that error)).
C9_IntegrityErrors ==
    (main_pc = "sync_returned" /\ integrity_checked) =>
        /\ ledger_height # lb_result.height =>
               sync_result = Err(lb_result.height, "height_mismatch")
        /\ (ledger_height = lb_result.height /\ get_block_res = "error") =>
               sync_result = Err(lb_result.height, "get_block")

\* C9's case: the check ran on a ledger whose height is not the completed height.
C9_Witness ==
    /\ main_pc = "sync_returned"
    /\ integrity_checked
    /\ ledger_height # lb_result.height
    /\ sync_result.status = "Err"

\* C10: the pending blocks never number more than MAXIMUM_PENDING_BLOCKS.
C10_BoundedPending == Len(pending_blocks) <= MAXIMUM_PENDING_BLOCKS

\* The heights of the bundles whose request task has been spawned.
RequestedHeights ==
    {h \in 0..(end_height + BLOCKS_PER_FILE) :
        \E t \in 1..Len(tasks) : tasks[t].start <= h /\ h < tasks[t].end}

\* The heights held in a sequence of blocks.
Heights(blocks) == {blocks[i] : i \in 1..Len(blocks)}

\* C11: once the stop test of the download task has fired, every height from
\* the next one the applier needs up to cdn_end is applied, buffered, taken
\* by the applier, or within a bundle whose request task has been spawned.
C11_StopCoversRange ==
    ctrl_pc = "stopped" =>
        \A h \in (current_height + 1)..(end_height - 1) :
            \/ h \in Heights(applied)
            \/ h \in Heights(pending_blocks)
            \/ h \in Heights(next_blocks)
            \/ h \in RequestedHeights

\* C12 as stated: every buffered height h has current_height + 1 <= h < cdn_end.
C12_BufferWithinRange ==
    \A h \in Heights(pending_blocks) : current_height + 1 <= h /\ h < end_height

\* The start of the bundle that holds a height.
BundleStart(h) == h - (h % BLOCKS_PER_FILE)

\* C12: every buffered height lies in a whole bundle of the download: it is
\* at least cdn_start and at least the start of the bundle holding the next
\* height the applier needs, and below cdn_end + BLOCKS_PER_FILE.
C12_BufferWithinBundles ==
    \A h \in Heights(pending_blocks) :
        /\ cdn_start <= h
        /\ BundleStart(current_height + 1) <= h
        /\ h < end_height + BLOCKS_PER_FILE

\* A height below start_height and a height at or above cdn_end are buffered.
C12_Witness ==
    /\ \E h \in Heights(pending_blocks) : h < start_height
    /\ \E h \in Heights(pending_blocks) : h >= end_height

\* The number of requests C13 gives for a round, from the buffered count read
\* at line 173 and the request counter read at line 181.
NumToLaunch ==
    LET room == (MAXIMUM_PENDING_BLOCKS - num_pending_blocks) \div BLOCKS_PER_FILE
        target == IF CONCURRENT_REQUESTS <= room THEN CONCURRENT_REQUESTS ELSE room
    IN  IF target - active_requests > 0 THEN target - active_requests ELSE 0

\* A round of the download task that passed the backpressure and stop tests.
RoundLaunches ==
    LET launched == Len(tasks') - Len(tasks)
    IN  /\ launched >= 0 /\ launched <= NumToLaunch
        /\ SubSeq(tasks', 1, Len(tasks)) = tasks
        /\ \A i \in 1..launched :
              /\ tasks'[Len(tasks) + i].start = ctrl_start + (i - 1) * BLOCKS_PER_FILE
              /\ tasks'[Len(tasks) + i].end = tasks'[Len(tasks) + i].start + BLOCKS_PER_FILE
              /\ tasks'[Len(tasks) + i].end <= end_height + BLOCKS_PER_FILE
        \* A bundle of the round is left out only if its end is above the limit.
        /\ launched < NumToLaunch =>
              ctrl_start + launched * BLOCKS_PER_FILE + BLOCKS_PER_FILE > end_height + BLOCKS_PER_FILE
        /\ ctrl_start' = ctrl_start + BLOCKS_PER_FILE * NumToLaunch

\* Over the run: bundles are aligned, requested at most once, and none that
\* intersects [cdn_start, cdn_end) below start has been left out.
LaunchedOnceNoneSkipped ==
    /\ \A t \in 1..Len(tasks) : tasks[t].start % BLOCKS_PER_FILE = 0
    /\ \A t, u \in 1..Len(tasks) : tasks[t].start = tasks[u].start => t = u
    /\ ctrl_pc \in {"loop", "requests", "stopped", "done"} =>
          \A s \in cdn_start..(ctrl_start - 1) :
              (s % BLOCKS_PER_FILE = 0 /\ s < end_height) =>
                  \E t \in 1..Len(tasks) : tasks[t].start = s

UnfinishedTasks == {t \in 1..Len(tasks) : tasks[t].pc # "finished"}

\* C14: the request tasks spawned and not yet finished are never more than
\* CONCURRENT_REQUESTS.
C14_BoundedRequests == Cardinality(UnfinishedTasks) <= CONCURRENT_REQUESTS

\* C15: the pending blocks are strictly ascending by height in every state,
\* and a step that finds the height of its block present (it logs the
\* duplicate warning) leaves the pending blocks as they were.
C15_SortedNoReplace ==
    /\ []StrictlyAscending(pending_blocks)
    /\ [][duplicate_warnings' # duplicate_warnings => pending_blocks' = pending_blocks]_vars

\* A block of a height that was present has been given to the insert.
C15_Witness == duplicate_warnings > 0 /\ Len(pending_blocks) > 1

\* C16: no task holds the lock of the pending blocks while it is suspended
\* at a sleep or a fetch, and the applier does not hold it while it applies
\* a block.
C16_NoLockAcrossAwait ==
    /\ \A task \in awaiting : lock_holder # task
    /\ main_pc = "apply" => lock_holder # Applier

\* A request task holds the lock while the download task and the applier
\* are asleep.
C16_Witness ==
    /\ lock_holder[1] = "request"
    /\ Controller \in awaiting
    /\ Applier \in awaiting

\* A step taken with the flag set while a block is next in the for loop.
StopsAtBlock ==
    /\ applied' = applied
    /\ next_blocks' = next_blocks
    /\ current_height' = current_height
    /\ lb_result' = lb_result
    /\ main_pc' \in {"apply", "exited"}

\* A step after std::process::exit(0).
StaysExited ==
    /\ main_pc' = "exited"
    /\ UNCHANGED <<applied, pending_blocks, next_blocks, current_height, lb_result,
                   sync_result, tasks, active_requests, ctrl_pc, ctrl_start>>

\* A step that changes the flag sets it and changes nothing of the pipeline.
FlagSetFromOutside ==
    /\ shutdown'
    /\ UNCHANGED <<entry, start_height, end_height_opt, ledger_height, main_pc,
                   end_height, cdn_start, pending_blocks, active_requests, ctrl_pc,
                   ctrl_start, num_pending_blocks, tasks, current_height, next_blocks,
                   applied, lb_result, integrity_checked, get_block_res, sync_result>>

\* C17: the applier reads the shutdown flag before each block of a bundle,
\* before the skip test and before `process`; with the flag read set nothing
\* more is applied or skipped, the process exits and load_blocks gives no
\* result; no step of the pipeline writes the flag.
C17_ShutdownPerBlock ==
    /\ [][(main_pc = "apply" /\ shutdown) => StopsAtBlock]_vars
    /\ [][main_pc = "exited" => StaysExited]_vars
    /\ [](main_pc = "exited" => shutdown /\ lb_result = NoResult /\ sync_result = NoResult)
    /\ [][shutdown' # shutdown => FlagSetFromOutside]_vars

\* The process has exited at the second block of a bundle, after blocks
\* were applied.
C17_Witness ==
    /\ main_pc = "exited"
    /\ applied # <<>>
    /\ Len(next_blocks) = 1

\* How far a request task has come.
Progress(task) ==
    CASE task.pc = "spawned" -> 0
      [] task.pc = "fetching" -> 1
      [] task.pc = "received" -> 2
      [] task.pc = "finished" -> 3

\* The step of task t in which cdn_get failed: nothing is inserted, nothing
\* is returned, the counter stays, and the task fetches the same bundle again.
FailureRetries(t) ==
    /\ pending_blocks' = pending_blocks
    /\ lb_result' = lb_result
    /\ main_pc' = main_pc
    /\ active_requests' = active_requests
    /\ tasks'[t].pc = "fetching"
    /\ tasks'[t].start = tasks[t].start
    /\ tasks'[t].end = tasks[t].end

\* The steps of task t: it moves on one stage at a time and never back, its
\* bundle is in the buffer right after its one step from fetching to
\* received, and it decrements the counter in its one step to finished.
TaskStages(t) ==
    /\ Progress(tasks'[t]) \in {Progress(tasks[t]), Progress(tasks[t]) + 1}
    /\ (tasks[t].pc = "fetching" /\ tasks'[t].pc = "received") =>
          /\ \A h \in tasks[t].start..(tasks[t].end - 1) : h \in Heights(pending_blocks')
          /\ Len(pending_blocks') = Len(pending_blocks) + BLOCKS_PER_FILE
    /\ (tasks[t].pc = "received" /\ tasks'[t].pc = "finished") =>
          active_requests' = active_requests - 1

\* The buffer grows and the counter falls only by the step of a task.
OnlyByTasks ==
    /\ Len(pending_blocks') > Len(pending_blocks) =>
          \E t \in 1..Len(tasks) : tasks[t].pc = "fetching" /\ tasks'[t].pc = "received"
    /\ active_requests' < active_requests =>
          \E t \in 1..Len(tasks) : tasks[t].pc = "received" /\ tasks'[t].pc = "finished"

\* The counter is the number of tasks between their increment and decrement.
CounterCountsBegun ==
    active_requests = Cardinality({t \in 1..Len(tasks) : tasks[t].pc \in {"fetching", "received"}})

\* C18: a failed fetch returns no error from load_blocks and inserts
\* nothing; the task fetches the same bundle again; the bundle is inserted
\* once, in the step of the first success; the request counter is
\* decremented once per task, after that step.
C18_FailureRetried ==
    /\ [][\/ UNCHANGED <<tasks, pending_blocks, active_requests>>
          \/ /\ \A t \in 1..Len(tasks) :
                   /\ tasks'[t].attempts # tasks[t].attempts => FailureRetries(t)
                   /\ TaskStages(t)
             /\ OnlyByTasks]_vars
    /\ []CounterCountsBegun

\* A task whose fetch failed has finished and load_blocks has returned Ok
\* after applying blocks.
C18_Witness ==
    /\ \E t \in 1..Len(tasks) : tasks[t].attempts > 0 /\ tasks[t].pc = "finished"
    /\ lb_result.status = "Ok"
    /\ applied # <<>>

\* C19: for every exclusive_height, a call of cdn_height that got
\* latest.json returns the smallest multiple of BLOCKS_PER_FILE strictly
\* greater than the tip stepped back by 10 (saturating); for 1000 and
\* bundles of 50 it returns 1000.
C19_SmallestMultipleAbove ==
    cdn_height_ret.state \in {"Ok", "panic"} =>
        LET tip == IF arg_exclusive_height > TIP_MARGIN
                   THEN arg_exclusive_height - TIP_MARGIN ELSE 0
            height == cdn_height_ret.value
        IN  /\ cdn_height_ret.state = "Ok"
            /\ height % arg_blocks_per_file = 0
            /\ height > tip
            /\ height - arg_blocks_per_file <= tip
            /\ (arg_exclusive_height = 1000 /\ arg_blocks_per_file = 50) => height = 1000

\* The blocks are the blocks of whole aligned bundles.
WholeBundles(blocks) ==
    \A h \in Heights(blocks) :
        \A g \in BundleStart(h)..(BundleStart(h) + BLOCKS_PER_FILE - 1) : g \in Heights(blocks)

\* The blocks the applier has taken are one aligned bundle, in order.
TakesOneBundle ==
    /\ Len(next_blocks') = BLOCKS_PER_FILE
    /\ next_blocks'[1] % BLOCKS_PER_FILE = 0
    /\ \A i \in 1..Len(next_blocks') : next_blocks'[i] = next_blocks'[1] + i - 1
    /\ Len(pending_blocks') = Len(pending_blocks) - BLOCKS_PER_FILE

\* C20: between critical sections the pending blocks are whole aligned
\* bundles, and what the applier takes from them is one complete bundle of
\* consecutive heights.
C20_WholeBundlesTaken ==
    /\ []WholeBundles(pending_blocks)
    /\ [][(main_pc = "applier" /\ main_pc' = "apply") => TakesOneBundle]_vars

\* The applier has taken a bundle while a bundle that is not the next one
\* is buffered.
C20_Witness ==
    /\ main_pc = "apply"
    /\ Len(next_blocks) = BLOCKS_PER_FILE
    /\ pending_blocks # <<>>
    /\ pending_blocks[1] > next_blocks[1] + BLOCKS_PER_FILE

\* C21: the height cdn_height returns is never above the exclusive_height
\* that latest.json reports.
C21_HeightWithinAdvertised ==
    cdn_height_ret.state = "Ok" => cdn_height_ret.value <= arg_exclusive_height

\* The range of the call is not empty and the index lies within it.
IndexInRange ==
    /\ cdn_start < end_height
    /\ cdn_start <= current_height
    /\ current_height <= end_height

\* The call neither divided by zero nor underflowed, and counted a file.
NoDivisionNoUnderflow ==
    /\ progress.state \notin {"division by zero", "underflow"}
    /\ progress.state = "logged" => progress.num_files_done >= 1

\* C22 as stated: for every non-empty range and every index within it,
\* log_progress neither divides by zero nor underflows.
C22_SafeForNonEmptyRange ==
    (progress.state # "not called" /\ IndexInRange) => NoDivisionNoUnderflow

\* C22: for every range whose end is at least 2 and every index within it,
\* log_progress neither divides by zero nor underflows, and
\* num_files_done is at least 1.
C22_SafeForEndAboveOne ==
    (progress.state # "not called" /\ IndexInRange /\ end_height >= 2) => NoDivisionNoUnderflow

\* A call with an index above the start of a range of several files has
\* logged more than one file done.
C22_Witness ==
    /\ IndexInRange
    /\ end_height >= 2
    /\ progress.state = "logged"
    /\ progress.num_files_done > 1
====
